---------------------------- MODULE Spec2Model ----------------------------
(***************************************************************************)
(* A model of the ffmpeg-filter-proxy video filter.  The repository holds  *)
(* three variants of the same filter:                                      *)
(*   "plain"  src/vf_proxy.c         (no option beyond path and config)    *)
(*   "clear"  src/unnamed/part_000   (adds the clear option)               *)
(*   "split"  src/README.md:96-382   (adds the split option)               *)
(* The host (libavfilter) drives one filter instance: init, link           *)
(* configuration, frames on the input pad, and finally uninit, which       *)
(* avfilter_free calls whatever init returned.                             *)
(***************************************************************************)
EXTENDS Integers, Sequences, FiniteSets, TLC

(***************************************************************************)
(* Bounds of the model.                                                    *)
(***************************************************************************)
MaxFrames == 2      \* frames the host sends on the input pad
MaxDim == 2         \* link width and height range over 1..MaxDim
MaxPadPx == 1       \* row padding of a buffer, in 4-byte units: 0..MaxPadPx
MaxSeed == 1        \* bytes of a buffer: Pattern(seed, n), seed in 0..MaxSeed
PoolAlignPx == 2    \* the buffer pool aligns rows to this many pixels

(***************************************************************************)
(* Program constants.                                                      *)
(***************************************************************************)
AVERROR_EINVAL == -22
AVERROR_ENOMEM == -12
AVERROR_UNKNOWN == -1313558101
AV_NOPTS_VALUE == -1
NULL == 0

Variants == {"plain", "clear", "split"}
Symbols == <<"filter_init", "filter_frame", "filter_uninit">>
SymbolSet == {Symbols[i] : i \in 1..3}
ModuleRcs == {0, 1}              \* return codes of the proxied filter
DownstreamRcs == {0, -32}        \* return codes of the next filter's input
Formats == {"BGRA", "YUV420P10"}
TIME_BASE == [num |-> 1, den |-> 25]
UserDatas == {7}                 \* what the module's filter_init may store

VARIABLES
  variant,   \* which of the three source variants is built
  opt,       \* the options: ProxyContext.filter_path, config, clear, split
  pc,        \* ProxyContext: handle, user_data and the three entry points
  lib,       \* the shared object at filter_path (what it exports and how its
             \* entry points behave) and the loader's count of its opens
  phase,     \* where the host is in the filter's life
  initRet,   \* what init returned
  links,     \* the configured input link and output links
  frames,    \* every AVFrame reference of the session, by id
  trace,     \* the calls made to the loader, the module and the framework
  modcalls,  \* the arguments of every call of the module's filter_frame
  disp       \* one record per dispatch (call of the pad's filter_frame):
             \* its frames, its result, the input's bytes before the call
             \* and the part of the trace it wrote (from..to)

vars == <<variant, opt, pc, lib, phase, initRet, links, frames, trace,
          modcalls, disp>>

(***************************************************************************)
(* Events of the trace: a call that leaves the filter.                     *)
(***************************************************************************)
Ev(op, frame, port, rc, ud) ==
  [op |-> op, frame |-> frame, port |-> port, rc |-> rc, ud |-> ud]

OpCount(s, op) == Cardinality({i \in 1..Len(s) : s[i].op = op})
Positions(s, op) == {i \in 1..Len(s) : s[i].op = op}

(***************************************************************************)
(* The dynamic loader.  lib.refs counts the opens of the shared object     *)
(* that have not been closed: the object is mapped while refs > 0.  A      *)
(* dlclose event records in rc whether the handle was still open (0) or    *)
(* already closed (-1: the handle is dangling, the behaviour undefined).   *)
(***************************************************************************)
SymAddr(name) ==
  CHOOSE i \in 1..3 : Symbols[i] = name

dlsym(l, name) ==
  IF name \in l.syms THEN SymAddr(name) ELSE NULL

\* the trace's record of a dlsym call: port is the symbol's place in Symbols,
\* rc is 0 when the symbol was found and -1 when dlerror reports it missing
dlsym_event(st, name) ==
  [st EXCEPT !.trace = Append(@, Ev("dlsym", 0, SymAddr(name),
                                    IF name \in st.lib.syms THEN 0 ELSE -1,
                                    0))]

dlclose(st) ==
  [st EXCEPT !.lib.refs = IF @ > 0 THEN @ - 1 ELSE @,
             !.trace = Append(@, Ev("dlclose", 0, 0,
                                    IF st.lib.refs > 0 THEN 0 ELSE -1, 0))]

(***************************************************************************)
(* The module's filter_init: stores its state in *user_data and returns    *)
(* lib.initRc.  The event records the return code.                         *)
(***************************************************************************)
call_filter_init(st) ==
  [st EXCEPT !.pc.user_data = st.lib.initUd,
             !.trace = Append(@, Ev("filter_init", 0, 0, st.lib.initRc,
                                    st.lib.initUd))]

\* a filter_uninit call that is passed the handle in place of user_data
call_filter_uninit_with_handle(st) ==
  [st EXCEPT !.trace = Append(@, Ev("filter_uninit", 0, 0,
                                    IF st.lib.refs > 0 THEN 0 ELSE -1,
                                    st.pc.handle))]

(***************************************************************************)
(* The module's filter_uninit, called through pc->filter_uninit.  rc       *)
(* records whether the object was still mapped (0) or not (-1).            *)
(***************************************************************************)
call_filter_uninit(st) ==
  [st EXCEPT !.trace = Append(@, Ev("filter_uninit", 0, 0,
                                    IF st.lib.refs > 0 THEN 0 ELSE -1,
                                    st.pc.user_data))]

\* a loader that resolves the three entry points before it checks any
init_load_resolve_all(st, o) ==
  IF ~o.filter_path
  THEN [st EXCEPT !.ret = AVERROR_EINVAL]
  ELSE IF ~st.lib.exists
  THEN [st EXCEPT !.pc.handle = NULL, !.ret = AVERROR_EINVAL,
                  !.trace = Append(@, Ev("dlopen", 0, 0, -1, 0))]
  ELSE
    LET s0 == [st EXCEPT !.pc.handle = 1, !.lib.refs = @ + 1,
                         !.trace = Append(@, Ev("dlopen", 0, 0, 0, 0))]
        s1 == [dlsym_event(s0, "filter_init") EXCEPT
                 !.pc.filter_init = dlsym(s0.lib, "filter_init")]
        s2 == [dlsym_event(s1, "filter_frame") EXCEPT
                 !.pc.filter_frame = dlsym(s1.lib, "filter_frame")]
        s3 == [dlsym_event(s2, "filter_uninit") EXCEPT
                 !.pc.filter_uninit = dlsym(s2.lib, "filter_uninit")]
    IN IF s3.lib.syms # SymbolSet
       THEN [dlclose(s3) EXCEPT !.ret = AVERROR_EINVAL]
       ELSE
    LET s4 == call_filter_init(s3)
    IN IF s4.lib.initRc # 0
       THEN [dlclose(s4) EXCEPT !.ret = AVERROR_EINVAL]
       ELSE [s4 EXCEPT !.ret = 0]

(***************************************************************************)
(* init, up to and including the call of the module's filter_init: the    *)
(* same text in the three variants.  st is [pc, lib, trace, ret]; ret is   *)
(* 0 when the module is loaded and initialised.                            *)
(***************************************************************************)
init_load(st, o) ==
  IF ~o.filter_path
  THEN [st EXCEPT !.ret = AVERROR_EINVAL]
  ELSE IF ~st.lib.exists
  THEN [st EXCEPT !.pc.handle = NULL, !.ret = AVERROR_EINVAL,
                  !.trace = Append(@, Ev("dlopen", 0, 0, -1, 0))]
  ELSE
    LET s0 == [st EXCEPT !.pc.handle = 1, !.lib.refs = @ + 1,
                         !.trace = Append(@, Ev("dlopen", 0, 0, 0, 0))]
        s1 == [dlsym_event(s0, "filter_init") EXCEPT
                 !.pc.filter_init = dlsym(s0.lib, "filter_init")]
    IN IF "filter_init" \notin s1.lib.syms
       THEN [dlclose(s1) EXCEPT !.ret = AVERROR_EINVAL]
       ELSE
    LET s2 == [dlsym_event(s1, "filter_frame") EXCEPT
                 !.pc.filter_frame = dlsym(s1.lib, "filter_frame")]
    IN IF "filter_frame" \notin s2.lib.syms
       THEN [dlclose(s2) EXCEPT !.ret = AVERROR_EINVAL]
       ELSE
    LET s3 == [dlsym_event(s2, "filter_uninit") EXCEPT
                 !.pc.filter_uninit = dlsym(s2.lib, "filter_uninit")]
    IN IF "filter_uninit" \notin s3.lib.syms
       THEN [dlclose(s3) EXCEPT !.ret = AVERROR_EINVAL]
       ELSE
    LET s4 == call_filter_init(s3)
    IN IF s4.lib.initRc # 0
       THEN [dlclose(s4) EXCEPT !.ret = AVERROR_EINVAL]
       ELSE [s4 EXCEPT !.ret = 0]

(***************************************************************************)
(* The split variant's init goes on to create its output pads: nb_out is   *)
(* 2 with split and 1 without.  padFail names the step that fails, if      *)
(* any: the allocation of pad i's name ("name") or its insertion           *)
(* ("insert"); the result's nb is the number of pads inserted.             *)
(***************************************************************************)
init_pads(o, padFail) ==
  LET nb_out == IF o.split THEN 2 ELSE 1
  IN IF padFail.at <= nb_out - 1 /\ padFail.step = "name"
     THEN [ret |-> AVERROR_ENOMEM, nb |-> padFail.at]
     ELSE IF padFail.at <= nb_out - 1 /\ padFail.step = "insert"
     THEN [ret |-> AVERROR_ENOMEM, nb |-> padFail.at]
     ELSE [ret |-> 0, nb |-> nb_out]

\* an init that closes the handle when the creation of a pad fails
init_unloads_on_pad_failure(v, st, o, padFail) ==
  LET s == init_load(st, o)
  IN IF v # "split"
     THEN [pc |-> s.pc, lib |-> s.lib, trace |-> s.trace, ret |-> s.ret,
           nb |-> 1]
     ELSE IF s.ret # 0
     THEN [pc |-> s.pc, lib |-> s.lib, trace |-> s.trace, ret |-> s.ret,
           nb |-> 0]
     ELSE LET p == init_pads(o, padFail)
              t == IF p.ret # 0 THEN dlclose(s) ELSE s
          IN [pc |-> t.pc, lib |-> t.lib, trace |-> t.trace, ret |-> p.ret,
              nb |-> p.nb]

(***************************************************************************)
(* init of the variant v.  The result adds nb, the number of output pads   *)
(* of the filter when init returns.                                        *)
(***************************************************************************)
init(v, st, o, padFail) ==
  LET s == init_load(st, o)
  IN IF v # "split"
     THEN [pc |-> s.pc, lib |-> s.lib, trace |-> s.trace, ret |-> s.ret,
           nb |-> 1]
     ELSE IF s.ret # 0
     THEN [pc |-> s.pc, lib |-> s.lib, trace |-> s.trace, ret |-> s.ret,
           nb |-> 0]
     ELSE LET p == init_pads(o, padFail)
          IN [pc |-> s.pc, lib |-> s.lib, trace |-> s.trace, ret |-> p.ret,
              nb |-> p.nb]

(***************************************************************************)
(* uninit: the same text in the three variants.  When init has already     *)
(* closed the handle, the call through pc->filter_uninit jumps into an     *)
(* object that may be unmapped, and dlclose is given a dangling handle:    *)
(* both are undefined.  fault is the outcome: "none" (both calls return),  *)
(* "call" (the call of filter_uninit crashes the process) or "close" (the  *)
(* dlclose does).                                                          *)
(***************************************************************************)
uninit(st, fault) ==
  IF st.pc.handle # NULL
  THEN LET s1 == IF st.pc.filter_uninit # NULL
                 THEN call_filter_uninit(st)
                 ELSE st
       IN IF st.pc.filter_uninit # NULL /\ st.lib.refs = 0 /\ fault = "call"
          THEN [s1 EXCEPT !.crashed = TRUE]
          ELSE [dlclose(s1) EXCEPT
                  !.crashed = (st.lib.refs = 0 /\ fault = "close")]
  ELSE st

(***************************************************************************)
(* Frames.  A frame is one AVFrame reference: data is the bytes of         *)
(* data[0], height * linesize of them; writable says that no one else      *)
(* holds a reference to the buffer; owner is who holds the reference       *)
(* ("proxy", "downstream" or "freed"); frees and sends count the           *)
(* av_frame_free and ff_filter_frame calls the filter made on it.          *)
(***************************************************************************)
BytesPerPixel(fmt) ==
  IF fmt = "BGRA" THEN 4 ELSE 2

Pattern(seed, n) ==
  [i \in 1..n |-> (seed * i) % 256]

NewFrame(fmt, width, height, pad, seed, pts, writable) ==
  LET ls == width * BytesPerPixel(fmt) + 4 * pad
  IN [data |-> Pattern(seed, height * ls), width |-> width,
      height |-> height, linesize |-> ls, format |-> fmt, pts |-> pts,
      writable |-> writable, owner |-> "proxy", frees |-> 0, sends |-> 0]

av_frame_is_writable(w, f) ==
  w.frames[f].writable

av_frame_free(w, f) ==
  [w EXCEPT !.frames[f].owner = "freed", !.frames[f].frees = @ + 1,
            !.trace = Append(@, Ev("av_frame_free", f, 0, 0, 0))]

(***************************************************************************)
(* ff_filter_frame takes the reference whatever it returns: the next       *)
(* filter holds the frame when rc >= 0 and the framework has freed it      *)
(* when rc < 0.                                                            *)
(***************************************************************************)
ff_filter_frame(w, port, f, rc) ==
  [w EXCEPT !.frames[f].owner = IF rc >= 0 THEN "downstream" ELSE "freed",
            !.frames[f].sends = @ + 1,
            !.trace = Append(@, Ev("ff_filter_frame", f, port, rc, 0))]

(***************************************************************************)
(* ff_get_video_buffer(link, link->w, link->h) when it succeeds: a new     *)
(* frame of the link's format and size, its bytes uninitialised (any       *)
(* pattern), its pts unset.  The new frame's id is Len(w.frames) + 1.      *)
(***************************************************************************)
ff_get_video_buffer(w, fmt, width, height, a) ==
  [w EXCEPT !.frames = Append(@, NewFrame(fmt, width, height, a.pad, a.seed,
                                          AV_NOPTS_VALUE, TRUE)),
            !.trace = Append(@, Ev("ff_get_video_buffer",
                                   Len(w.frames) + 1, 0, 0, 0))]

\* an av_frame_copy_props that copies nothing
av_frame_copy_props_nothing(w, dst, src) ==
  w

(***************************************************************************)
(* av_frame_copy_props copies the properties that are not the picture:     *)
(* here the pts.  Format, size, line size and bytes stay dst's own.        *)
(***************************************************************************)
av_frame_copy_props(w, dst, src) ==
  [w EXCEPT !.frames[dst].pts = w.frames[src].pts]

(***************************************************************************)
(* av_image_get_buffer_size(fmt, width, height, 1): the bytes of the       *)
(* picture without row padding, or an error for a size it rejects.  The    *)
(* library's own limits (av_image_check_size, the pixel format's           *)
(* descriptor) are not part of the repository: accepted says whether the   *)
(* library accepts this picture.                                           *)
(***************************************************************************)
av_image_get_buffer_size(fmt, width, height, accepted) ==
  IF ~accepted \/ width <= 0 \/ height <= 0
     \/ width * height * 8 > 2147483647
  THEN AVERROR_EINVAL
  ELSE IF fmt = "BGRA"
  THEN width * height * 4
  ELSE width * height * 2
       + 2 * (((width + 1) \div 2) * ((height + 1) \div 2) * 2)

(***************************************************************************)
(* clear_image: AV_WN32(data[0] + i * linesize[0] + j * 4, 0) for every    *)
(* row i < height and every j < width.  Byte k of data (from 1) is at      *)
(* offset k - 1.                                                           *)
(***************************************************************************)
InPixelArea(fr, k) ==
  /\ (k - 1) \div fr.linesize < fr.height
  /\ (k - 1) % fr.linesize < fr.width * 4

\* clear_image with the rows taken as packed (width * 4 bytes apart) instead
\* of linesize[0] apart
clear_image_packed(w, out) ==
  LET fr == w.frames[out]
  IN [w EXCEPT !.frames[out].data =
        [k \in DOMAIN fr.data |->
           IF (k - 1) < fr.height * fr.width * 4 THEN 0 ELSE fr.data[k]]]

clear_image(w, out) ==
  LET fr == w.frames[out]
  IN [w EXCEPT !.frames[out].data =
        [k \in DOMAIN fr.data |-> IF InPixelArea(fr, k) THEN 0 ELSE fr.data[k]]]

(***************************************************************************)
(* in->pts * av_q2d(time_base) * 1000, kept as the exact fraction.         *)
(***************************************************************************)
time_ms_of(pts, tb) ==
  [num |-> pts * tb.num * 1000, den |-> tb.den]

(***************************************************************************)
(* The module's filter_frame, called through pc->filter_frame on the       *)
(* bytes of frame buf.  modcalls keeps the arguments and the bytes the     *)
(* module found.  A module that paints sets to 255 every pixel byte of     *)
(* the picture its arguments describe (rows of line_size bytes, or of      *)
(* width * 4 when no line size is passed); any other module leaves the     *)
(* buffer as it is.  m.rc is what the module returns.                      *)
(***************************************************************************)
NoArg == -1

ModulePaint(data, a) ==
  LET ls == IF a.line_size = NoArg THEN a.width * 4 ELSE a.line_size
  IN [k \in DOMAIN data |->
        IF (k - 1) \div ls < a.height /\ (k - 1) % ls < a.width * 4
        THEN 255 ELSE data[k]]

call_filter_frame(w, buf, a, m) ==
  [w EXCEPT !.frames[buf].data = IF m.paints THEN ModulePaint(@, a) ELSE @,
            !.modcalls = Append(@, [buf |-> buf, found |-> w.frames[buf].data,
                                    args |-> a, rc |-> m.rc]),
            !.trace = Append(@, Ev("filter_frame", buf, 0, m.rc,
                                   a.user_data))]

(***************************************************************************)
(* The pad's filter_frame of the plain and the clear variant.  c is the    *)
(* context [v, o, pc, lk], in the frame handed in, x the inputs of the     *)
(* dispatch: x.alloc (whether ff_get_video_buffer succeeds, and the new    *)
(* buffer's padding and bytes), x.size_ok (whether the library accepts     *)
(* the picture size), x.mod (the module's behaviour) and x.down0, x.down1  *)
(* (what the next filters return).  The result is the     *)
(* world after the call with ret, out (0 when there is none) and direct.   *)
(***************************************************************************)
Result(w, ret, in, out, direct) ==
  [w |-> w, ret |-> ret, in |-> in, out |-> out, direct |-> direct]

filter_frame_single(c, w0, in, x) ==
  LET direct == av_frame_is_writable(w0, in)
      out == IF direct THEN in ELSE Len(w0.frames) + 1
      fin == w0.frames[in]
  IN IF ~direct /\ ~x.alloc.ok
     THEN Result(av_frame_free(w0, in), AVERROR_ENOMEM, in, 0, direct)
     ELSE
  LET w1 == IF direct THEN w0
            ELSE av_frame_copy_props(
                   ff_get_video_buffer(w0, c.lk.out_format, c.lk.w, c.lk.h,
                                       x.alloc), out, in)
      data_size == av_image_get_buffer_size(fin.format, fin.width, fin.height,
                                            x.size_ok)
  IN IF data_size < 0
     THEN Result(w1, data_size, in, out, direct)
     ELSE
  LET w2 == IF c.v = "clear" /\ c.o.clear THEN clear_image(w1, out) ELSE w1
      a == [data_size |-> data_size, width |-> fin.width,
            height |-> fin.height,
            line_size |-> IF c.v = "clear" THEN fin.linesize ELSE NoArg,
            time_ms |-> time_ms_of(fin.pts, c.lk.time_base),
            user_data |-> c.pc.user_data]
      w3 == call_filter_frame(w2, out, a, x.mod)
      w4 == IF ~direct THEN av_frame_free(w3, in) ELSE w3
  IN IF x.mod.rc # 0
     THEN Result(w4, AVERROR_UNKNOWN, in, out, direct)
     ELSE Result(ff_filter_frame(w4, 0, out, x.down0), x.down0, in, out,
                 direct)

\* a do_filter without the test of data_size
do_filter_unchecked(c, w0, in, out, x) ==
  LET fout == w0.frames[out]
      data_size == av_image_get_buffer_size(fout.format, fout.width,
                                            fout.height, x.size_ok)
      a == [data_size |-> data_size, width |-> fout.width,
            height |-> fout.height, line_size |-> fout.linesize,
            time_ms |-> time_ms_of(w0.frames[in].pts, c.lk.time_base),
            user_data |-> c.pc.user_data]
      w1 == call_filter_frame(w0, out, a, x.mod)
  IN IF x.mod.rc # 0
     THEN [w |-> w1, ret |-> AVERROR_UNKNOWN]
     ELSE [w |-> w1, ret |-> 0]

\* a do_filter that describes the buffer by the input frame's geometry
do_filter_in_geometry(c, w0, in, out, x) ==
  LET fin == w0.frames[in]
      data_size == av_image_get_buffer_size(fin.format, fin.width,
                                            fin.height, x.size_ok)
  IN IF data_size < 0
     THEN [w |-> w0, ret |-> data_size]
     ELSE
  LET a == [data_size |-> data_size, width |-> fin.width,
            height |-> fin.height, line_size |-> fin.linesize,
            time_ms |-> time_ms_of(fin.pts, c.lk.time_base),
            user_data |-> c.pc.user_data]
      w1 == call_filter_frame(w0, out, a, x.mod)
  IN IF x.mod.rc # 0
     THEN [w |-> w1, ret |-> AVERROR_UNKNOWN]
     ELSE [w |-> w1, ret |-> 0]

(***************************************************************************)
(* The split variant: do_filter, filter_frame_split and filter_frame.      *)
(* do_filter's result is [w, ret].                                         *)
(***************************************************************************)
do_filter(c, w0, in, out, x) ==
  LET fout == w0.frames[out]
      data_size == av_image_get_buffer_size(fout.format, fout.width,
                                            fout.height, x.size_ok)
  IN IF data_size < 0
     THEN [w |-> w0, ret |-> data_size]
     ELSE
  LET a == [data_size |-> data_size, width |-> fout.width,
            height |-> fout.height, line_size |-> fout.linesize,
            time_ms |-> time_ms_of(w0.frames[in].pts, c.lk.time_base),
            user_data |-> c.pc.user_data]
      w1 == call_filter_frame(w0, out, a, x.mod)
  IN IF x.mod.rc # 0
     THEN [w |-> w1, ret |-> AVERROR_UNKNOWN]
     ELSE [w |-> w1, ret |-> 0]

\* filter_frame_split with the two ff_filter_frame calls in the other order
filter_frame_split_overlay_first(c, w0, in, x) ==
  IF ~x.alloc.ok
  THEN Result(av_frame_free(w0, in), AVERROR_ENOMEM, in, 0, FALSE)
  ELSE
  LET out == Len(w0.frames) + 1
      w1 == ff_get_video_buffer(w0, c.lk.overlay.format, c.lk.overlay.w,
                                c.lk.overlay.h, x.alloc)
      w2 == clear_image(w1, out)
      w3 == [w2 EXCEPT !.frames[out].pts = w2.frames[in].pts]
      r == do_filter(c, w3, in, out, x)
  IN IF r.ret < 0
     THEN Result(av_frame_free(r.w, out), r.ret, in, out, FALSE)
     ELSE
  LET w4 == ff_filter_frame(r.w, 1, out, x.down1)
  IN IF x.down1 < 0
     THEN Result(av_frame_free(w4, in), x.down1, in, out, FALSE)
     ELSE Result(ff_filter_frame(w4, 0, in, x.down0), x.down0, in, out,
                 FALSE)

\* filter_frame_split without the av_frame_free(&out) when forwarding the
\* primary frame fails
filter_frame_split_keeps_overlay(c, w0, in, x) ==
  IF ~x.alloc.ok
  THEN Result(av_frame_free(w0, in), AVERROR_ENOMEM, in, 0, FALSE)
  ELSE
  LET out == Len(w0.frames) + 1
      w1 == ff_get_video_buffer(w0, c.lk.overlay.format, c.lk.overlay.w,
                                c.lk.overlay.h, x.alloc)
      w2 == clear_image(w1, out)
      w3 == [w2 EXCEPT !.frames[out].pts = w2.frames[in].pts]
      r == do_filter(c, w3, in, out, x)
  IN IF r.ret < 0
     THEN Result(av_frame_free(r.w, out), r.ret, in, out, FALSE)
     ELSE
  LET w4 == ff_filter_frame(r.w, 0, in, x.down0)
  IN IF x.down0 < 0
     THEN Result(w4, x.down0, in, out, FALSE)
     ELSE Result(ff_filter_frame(w4, 1, out, x.down1), x.down1, in, out,
                 FALSE)

filter_frame_split(c, w0, in, x) ==
  IF ~x.alloc.ok
  THEN Result(av_frame_free(w0, in), AVERROR_ENOMEM, in, 0, FALSE)
  ELSE
  LET out == Len(w0.frames) + 1
      w1 == ff_get_video_buffer(w0, c.lk.overlay.format, c.lk.overlay.w,
                                c.lk.overlay.h, x.alloc)
      w2 == clear_image(w1, out)
      w3 == [w2 EXCEPT !.frames[out].pts = w2.frames[in].pts]
      r == do_filter(c, w3, in, out, x)
  IN IF r.ret < 0
     THEN Result(av_frame_free(r.w, out), r.ret, in, out, FALSE)
     ELSE
  LET w4 == ff_filter_frame(r.w, 0, in, x.down0)
  IN IF x.down0 < 0
     THEN Result(av_frame_free(w4, out), x.down0, in, out, FALSE)
     ELSE Result(ff_filter_frame(w4, 1, out, x.down1), x.down1, in, out,
                 FALSE)

\* a filter_frame that processes every frame in place, writable or not
filter_frame_nosplit_in_place(c, w0, in, x) ==
  LET r == do_filter(c, w0, in, in, x)
  IN IF r.ret < 0
     THEN Result(r.w, r.ret, in, in, TRUE)
     ELSE Result(ff_filter_frame(r.w, 0, in, x.down0), x.down0, in, in, TRUE)

filter_frame_nosplit(c, w0, in, x) ==
  LET direct == av_frame_is_writable(w0, in)
      out == IF direct THEN in ELSE Len(w0.frames) + 1
  IN IF ~direct /\ ~x.alloc.ok
     THEN Result(av_frame_free(w0, in), AVERROR_ENOMEM, in, 0, direct)
     ELSE
  LET w1 == IF direct THEN w0
            ELSE av_frame_copy_props(
                   ff_get_video_buffer(w0, c.lk.out_format, c.lk.w, c.lk.h,
                                       x.alloc), out, in)
      r == do_filter(c, w1, in, out, x)
      w2 == IF ~direct THEN av_frame_free(r.w, in) ELSE r.w
  IN IF r.ret < 0
     THEN Result(w2, r.ret, in, out, direct)
     ELSE Result(ff_filter_frame(w2, 0, out, x.down0), x.down0, in, out,
                 direct)

filter_frame(c, w0, in, x) ==
  IF c.v = "split"
  THEN IF c.o.split
       THEN filter_frame_split(c, w0, in, x)
       ELSE filter_frame_nosplit(c, w0, in, x)
  ELSE filter_frame_single(c, w0, in, x)

(***************************************************************************)
(* The input pad's declaration: the plain and the clear variant ask the    *)
(* framework for a writable frame (needs_writable), so the framework       *)
(* copies a shared frame, bytes included, before it calls filter_frame.    *)
(* The split variant's pad does not.                                       *)
(***************************************************************************)
NeedsWritable(v) ==
  v \in {"plain", "clear"}

(***************************************************************************)
(* query_formats: the formats the filter accepts on its links.             *)
(***************************************************************************)
query_formats(v, o) ==
  IF v = "split" /\ o.split THEN Formats ELSE {"BGRA"}

\* a config_props of the second output that pins a format other than BGRA
config_output_other(inl) ==
  [w |-> inl.w, h |-> inl.h, time_base |-> inl.time_base,
   format |-> "YUV420P10"]

(***************************************************************************)
(* config_output_bgra: the second output of the split variant takes the    *)
(* input's size and time base and is BGRA.                                 *)
(***************************************************************************)
config_output_bgra(inl) ==
  [w |-> inl.w, h |-> inl.h, time_base |-> inl.time_base, format |-> "BGRA"]

(***************************************************************************)
(* The initial state: the filter is allocated, its private context zeroed  *)
(* and its options set; nothing is loaded.                                 *)
(***************************************************************************)
Init ==
  /\ variant \in Variants
  /\ opt \in [filter_path : BOOLEAN, clear : BOOLEAN, split : BOOLEAN]
  /\ opt.clear => variant = "clear"
  /\ opt.split => variant = "split"
  /\ pc = [handle |-> NULL, user_data |-> NULL, filter_init |-> NULL,
           filter_frame |-> NULL, filter_uninit |-> NULL]
  /\ lib \in [exists : BOOLEAN, syms : SUBSET SymbolSet, initRc : ModuleRcs,
               initUd : UserDatas, paints : BOOLEAN, refs : {0}]
  /\ ~lib.exists => (lib.syms = {} /\ lib.initRc = 0 /\ ~lib.paints)
  /\ phase = "created"
  /\ initRet = 1
  /\ links = [nb_outputs |-> IF variant = "split" THEN 0 ELSE 1,
              w |-> 0, h |-> 0, pad |-> 0, pool_pad |-> 0, seed |-> 0,
              garbage |-> 0, size_ok |-> TRUE,
              format |-> "BGRA",
              out_format |-> "BGRA", time_base |-> TIME_BASE,
              overlay |-> config_output_bgra([w |-> 0, h |-> 0,
                                              time_base |-> TIME_BASE])]
  /\ frames = <<>>
  /\ trace = <<>>
  /\ modcalls = <<>>
  /\ disp = <<>>

(***************************************************************************)
(* The host calls init.                                                    *)
(***************************************************************************)
PadFails ==
  {[at |-> 2, step |-> "none"]}
    \cup [at : {0, 1}, step : {"name", "insert"}]

HostInit ==
  /\ phase = "created"
  /\ \E padFail \in PadFails :
       LET r == init(variant, [pc |-> pc, lib |-> lib, trace |-> trace,
                               ret |-> 0], opt, padFail)
       IN /\ pc' = r.pc
          /\ lib' = r.lib
          /\ trace' = r.trace
          /\ initRet' = r.ret
          /\ links' = [links EXCEPT !.nb_outputs = r.nb]
          /\ phase' = IF r.ret = 0 THEN "initialized" ELSE "init_failed"
  /\ UNCHANGED <<variant, opt, frames, modcalls, disp>>

(***************************************************************************)
(* The host configures the graph: the input link's format is one the       *)
(* filter accepts; the first output has the input's format and size; the   *)
(* second output, when there is one, is configured by config_output_bgra.  *)
(* pad is the row padding of the frames the source sends, seed their       *)
(* picture; garbage is the bytes a buffer fresh from the output links'     *)
(* pool holds (it is not initialised).  The plain and the clear variant    *)
(* never take one: every frame they are handed is writable.  The pool      *)
(* aligns the rows of its buffers to PoolAlignPx pixels, whatever the      *)
(* padding of the frames the source sends.  size_ok says whether the       *)
(* library accepts the size of the links' pictures: it is a function of    *)
(* the format and the dimensions, the same for every frame of a session.   *)
(***************************************************************************)
PoolChoices(v, max) ==
  IF NeedsWritable(v) THEN {0} ELSE 0..max

PoolPad(width) ==
  (PoolAlignPx - (width % PoolAlignPx)) % PoolAlignPx

HostConfig ==
  /\ phase = "initialized"
  /\ \E fmt \in query_formats(variant, opt), w \in 1..MaxDim,
        h \in 1..MaxDim, pad \in 0..MaxPadPx, seed \in 0..MaxSeed,
        garbage \in PoolChoices(variant, MaxSeed), size_ok \in BOOLEAN :
       links' = [links EXCEPT
                   !.w = w, !.h = h, !.pad = pad, !.format = fmt,
                   !.pool_pad = PoolPad(w), !.size_ok = size_ok,
                   !.seed = seed, !.garbage = garbage,
                   !.out_format = fmt,
                   !.overlay = config_output_bgra(
                                 [w |-> w, h |-> h, time_base |-> TIME_BASE])]
  /\ phase' = "running"
  /\ UNCHANGED <<variant, opt, pc, lib, initRet, frames, trace, modcalls,
                 disp>>

(***************************************************************************)
(* The host passes a frame to the input pad: the call of filter_frame as   *)
(* a whole.  The frame has the input link's format and size; shared says   *)
(* whether someone else holds its buffer.  After an error the host sends   *)
(* no more frames.                                                         *)
(***************************************************************************)
HostFrame ==
  /\ phase = "running"
  /\ Len(disp) < MaxFrames
  /\ \E shared \in BOOLEAN, aok \in BOOLEAN, rc \in ModuleRcs,
        down0 \in DownstreamRcs, down1 \in DownstreamRcs :
       LET in == Len(frames) + 1
           fr == NewFrame(links.format, links.w, links.h, links.pad, links.seed,
                          10 * (Len(disp) + 1),
                          NeedsWritable(variant) \/ ~shared)
           c == [v |-> variant, o |-> opt, pc |-> pc, lk |-> links]
           x == [alloc |-> [ok |-> aok, pad |-> links.pool_pad,
                           seed |-> links.garbage],
                 size_ok |-> links.size_ok,
                 mod |-> [rc |-> rc, paints |-> lib.paints],
                 down0 |-> down0, down1 |-> down1]
           r == filter_frame(c, [frames |-> Append(frames, fr),
                                 trace |-> trace, modcalls |-> modcalls],
                             in, x)
       IN /\ frames' = r.w.frames
          /\ trace' = r.w.trace
          /\ modcalls' = r.w.modcalls
          /\ disp' = Append(disp, [in |-> r.in, out |-> r.out,
                                   direct |-> r.direct, ret |-> r.ret,
                                   before |-> fr.data,
                                   from |-> Len(trace) + 1,
                                   to |-> Len(r.w.trace)])
          /\ phase' = IF r.ret < 0 THEN "error" ELSE "running"
  /\ UNCHANGED <<variant, opt, pc, lib, initRet, links>>

(***************************************************************************)
(* The host frees the filter (avfilter_free), which calls uninit whatever  *)
(* init returned.                                                          *)
(***************************************************************************)
HostUninit ==
  /\ phase \in {"initialized", "init_failed", "running", "error"}
  /\ \E fault \in {"none", "call", "close"} :
       LET r == uninit([pc |-> pc, lib |-> lib, trace |-> trace,
                        crashed |-> FALSE], fault)
       IN /\ pc' = r.pc
          /\ lib' = r.lib
          /\ trace' = r.trace
          /\ phase' = IF r.crashed THEN "crashed" ELSE "freed"
  /\ UNCHANGED <<variant, opt, initRet, links, frames, modcalls, disp>>

Next ==
  \/ HostInit
  \/ HostConfig
  \/ HostFrame
  \/ HostUninit

Spec == Init /\ [][Next]_vars

(***************************************************************************)
(* What the claims read off the trace.                                     *)
(***************************************************************************)
Opened == \E i \in 1..Len(trace) : trace[i].op = "dlopen" /\ trace[i].rc = 0
InitCalled == OpCount(trace, "filter_init") > 0
InitFailedInModule ==
  \E i \in 1..Len(trace) : trace[i].op = "filter_init" /\ trace[i].rc # 0
InitSucceededInModule ==
  \E i \in 1..Len(trace) : trace[i].op = "filter_init" /\ trace[i].rc = 0
ModuleOps == {"filter_init", "filter_frame", "filter_uninit"}
TornDown == phase \in {"freed", "crashed"}

(***************************************************************************)
(* C1.  Over init (whatever its outcome) followed by uninit, a handle      *)
(* that dlopen returned is closed exactly once.  The code closes it in     *)
(* init on every failure after dlopen and leaves pc->handle set, so        *)
(* uninit closes it again.                                                 *)
(***************************************************************************)
C1_HandleClosedExactlyOnce ==
  (phase = "freed" /\ Opened) => OpCount(trace, "dlclose") = 1

(***************************************************************************)
(* C2.  When the module's filter_init returns nonzero, init fails and the  *)
(* teardown that follows makes no call of the module's filter_uninit.      *)
(***************************************************************************)
C2_NoUninitAfterFailedInit ==
  InitFailedInModule =>
    /\ phase # "created" => initRet # 0
    /\ OpCount(trace, "filter_uninit") = 0

(***************************************************************************)
(* C3.  The order of the module's entry points over a session:             *)
(* filter_init at most once and exactly once before any filter_frame;      *)
(* filter_uninit at most once, exactly once at teardown when filter_init   *)
(* returned 0 and never when it did not; every filter_frame before         *)
(* filter_uninit; nothing of the module after filter_uninit.               *)
(***************************************************************************)
C3_LifecycleOrder ==
  /\ OpCount(trace, "filter_init") <= 1
  /\ OpCount(trace, "filter_uninit") <= 1
  /\ \A i \in Positions(trace, "filter_frame") :
       \E j \in 1..(i - 1) : trace[j].op = "filter_init"
  /\ \A i \in Positions(trace, "filter_uninit") :
       /\ \E j \in 1..(i - 1) :
            trace[j].op = "filter_init" /\ trace[j].rc = 0
       /\ \A j \in (i + 1)..Len(trace) : trace[j].op \notin ModuleOps
  /\ (TornDown /\ InitSucceededInModule) =>
       OpCount(trace, "filter_uninit") = 1

(***************************************************************************)
(* C4.  Teardown of a session whose init did not succeed is a no-op: it    *)
(* calls neither filter_uninit nor dlclose (the trace does not grow) and   *)
(* changes nothing of the context.                                         *)
(***************************************************************************)
C4_TeardownOfFailedInitIsNoOp ==
  [][(phase = "init_failed" /\ phase' \in {"freed", "crashed"})
       => (trace' = trace /\ pc' = pc /\ lib' = lib)]_vars

(***************************************************************************)
(* What the claims read off a dispatch: n is an index of disp.             *)
(***************************************************************************)
SplitMode == variant = "split" /\ opt.split
ClearMode == variant = "clear" /\ opt.clear
Dispatches == 1..Len(disp)

EventsOf(n) == disp[n].from..disp[n].to

Forwards(n) == {i \in EventsOf(n) : trace[i].op = "ff_filter_frame"}

ModuleCalled(n) == \E i \in EventsOf(n) : trace[i].op = "filter_frame"

ModuleFailed(n) ==
  \E i \in EventsOf(n) : trace[i].op = "filter_frame" /\ trace[i].rc # 0

ModuleSucceeded(n) ==
  \E i \in EventsOf(n) : trace[i].op = "filter_frame" /\ trace[i].rc = 0

\* the index in modcalls of dispatch n's call of the module
ModCallOf(n) ==
  Cardinality({i \in 1..disp[n].to : trace[i].op = "filter_frame"})

FramesOf(n) ==
  {disp[n].in} \cup (IF disp[n].out # 0 THEN {disp[n].out} ELSE {})

(***************************************************************************)
(* C5.  Without split, when the module's filter_frame returns nonzero no   *)
(* frame is forwarded and the filter holds no frame of the dispatch when   *)
(* it returns, in place or not.  The code returns AVERROR_UNKNOWN without  *)
(* freeing out.                                                            *)
(***************************************************************************)
C5_ModuleFailureReleasesFrames ==
  \A n \in Dispatches :
    (~SplitMode /\ ModuleFailed(n)) =>
      /\ Forwards(n) = {}
      /\ \A f \in FramesOf(n) : frames[f].owner # "proxy"

(***************************************************************************)
(* C6.  With split, when the module fails on the overlay buffer neither    *)
(* frame is forwarded, the input frame and the overlay frame are both      *)
(* released, and the error is returned.  The code frees the overlay and    *)
(* keeps the input.                                                        *)
(***************************************************************************)
C6_SplitModuleFailureReleasesBoth ==
  \A n \in Dispatches :
    (SplitMode /\ ModuleFailed(n)) =>
      /\ Forwards(n) = {}
      /\ disp[n].ret < 0
      /\ frames[disp[n].in].owner = "freed"
      /\ frames[disp[n].out].owner = "freed"

(***************************************************************************)
(* C7.  With split, a dispatch in which the module and both forwards       *)
(* succeed emits exactly two frames: first the input frame on output 0,    *)
(* its bytes and format untouched, then the overlay frame on output 1,     *)
(* BGRA, with the input's pts; the module was given the overlay buffer,    *)
(* whose pixel area was zero when it was called.                           *)
(***************************************************************************)
C7_SplitEmitsPrimaryThenOverlay ==
  \A n \in Dispatches :
    (SplitMode /\ disp[n].ret >= 0) =>
      LET d == disp[n]
          fw == Forwards(n)
          mc == modcalls[ModCallOf(n)]
      IN /\ Cardinality(fw) = 2
         /\ \E i \in fw, j \in fw :
              /\ i < j
              /\ trace[i].port = 0 /\ trace[i].frame = d.in
              /\ trace[j].port = 1 /\ trace[j].frame = d.out
         /\ d.out # d.in
         /\ frames[d.in].data = d.before
         /\ frames[d.in].format = links.format
         /\ frames[d.out].format = "BGRA"
         /\ frames[d.out].pts = frames[d.in].pts
         /\ frames[d.in].pts = 10 * n
         /\ ModuleCalled(n) /\ mc.buf = d.out
         /\ \A row \in 0..(frames[d.out].height - 1),
              col \in 0..(frames[d.out].width * 4 - 1) :
              mc.found[row * frames[d.out].linesize + col + 1] = 0

C7_Witness ==
  \E n \in Dispatches :
    /\ SplitMode /\ disp[n].ret >= 0
    /\ links.format = "YUV420P10" /\ links.garbage # 0 /\ links.seed # 0
    /\ links.pad > 0 /\ links.h > 1

(***************************************************************************)
(* C8.  With split, when the module succeeds and forwarding the primary    *)
(* frame fails, the overlay frame is freed exactly once and never          *)
(* forwarded, and the dispatch returns the failure code.                   *)
(***************************************************************************)
PrimaryForwardFailed(n) ==
  \E i \in Forwards(n) : trace[i].port = 0 /\ trace[i].rc < 0

C8_PrimaryForwardFailureFreesOverlay ==
  \A n \in Dispatches :
    (SplitMode /\ ModuleSucceeded(n) /\ PrimaryForwardFailed(n)) =>
      LET d == disp[n]
      IN /\ frames[d.out].frees = 1
         /\ frames[d.out].sends = 0
         /\ frames[d.out].owner = "freed"
         /\ \A i \in Forwards(n) : trace[i].port = 0 /\ trace[i].rc = d.ret
         /\ d.ret < 0

C8_Witness ==
  \E n \in Dispatches :
    SplitMode /\ ModuleSucceeded(n) /\ PrimaryForwardFailed(n)

(***************************************************************************)
(* C9.  With clear, when the module's filter_frame is called every byte    *)
(* of the buffer it is given is 0, row padding included.  clear_image      *)
(* writes width * 4 bytes of each row and leaves the padding.              *)
(***************************************************************************)
C9_EveryByteZero ==
  \A n \in Dispatches :
    (ClearMode /\ ModuleCalled(n)) =>
      LET mc == modcalls[ModCallOf(n)]
      IN \A k \in DOMAIN mc.found : mc.found[k] = 0

(***************************************************************************)
(* C9 as amended.  With clear, when the module's filter_frame is called    *)
(* every byte of the pixel area of the buffer it is given (the first       *)
(* width * 4 bytes of each of the height rows of line_size bytes) is 0;    *)
(* the row padding holds what it held before.                              *)
(***************************************************************************)
C9_PixelAreaZero ==
  \A n \in Dispatches :
    (ClearMode /\ ModuleCalled(n)) =>
      LET d == disp[n]
          mc == modcalls[ModCallOf(n)]
          fr == frames[mc.buf]
      IN /\ mc.buf = d.out
         /\ Len(mc.found) = fr.height * fr.linesize
         /\ fr.linesize >= fr.width * 4
         /\ \A row \in 0..(fr.height - 1) :
              /\ \A col \in 0..(fr.width * 4 - 1) :
                   mc.found[row * fr.linesize + col + 1] = 0
              /\ \A col \in (fr.width * 4)..(fr.linesize - 1) :
                   d.direct =>
                     mc.found[row * fr.linesize + col + 1]
                       = d.before[row * fr.linesize + col + 1]

C9_Witness ==
  \E n \in Dispatches :
    /\ ClearMode /\ ModuleCalled(n)
    /\ links.pad > 0 /\ links.h > 1 /\ links.w > 1 /\ links.seed # 0
    /\ \E k \in DOMAIN modcalls[ModCallOf(n)].found :
         modcalls[ModCallOf(n)].found[k] # 0

(***************************************************************************)
(* C10.  Round trip: without split and without clear, when the module      *)
(* leaves the buffer it is given unchanged, the forwarded frame's bytes    *)
(* are the input frame's bytes, whether the input was writable or shared.  *)
(* For a shared input the split variant hands the module a new buffer      *)
(* into which the picture was never copied.                                *)
(***************************************************************************)
C10_RoundTrip ==
  \A n \in Dispatches :
    (~SplitMode /\ ~ClearMode /\ ~lib.paints /\ disp[n].ret >= 0) =>
      /\ Cardinality(Forwards(n)) = 1
      /\ frames[disp[n].out].owner = "downstream"
      /\ frames[disp[n].out].data = disp[n].before

(***************************************************************************)
(* What the claims read off the loading of the module.                     *)
(***************************************************************************)
SymbolMissing == opt.filter_path /\ lib.exists /\ lib.syms # SymbolSet

\* the place in Symbols of the first entry point the object does not export
FirstMissing ==
  CHOOSE i \in 1..3 :
    /\ Symbols[i] \notin lib.syms
    /\ \A j \in 1..(i - 1) : Symbols[j] \in lib.syms

(***************************************************************************)
(* C11.  When the object lacks one of filter_init, filter_frame,           *)
(* filter_uninit, init looks them up in that order and stops at the first  *)
(* one missing: its calls are dlopen, one dlsym for each entry point up    *)
(* to the missing one, and dlclose of the handle while it is still open;   *)
(* it returns an error and the module's filter_init is never called.       *)
(***************************************************************************)
C11_StopsAtFirstMissingSymbol ==
  (SymbolMissing /\ phase # "created") =>
    LET k == FirstMissing
    IN /\ initRet < 0
       /\ Len(trace) >= k + 2
       /\ trace[1].op = "dlopen" /\ trace[1].rc = 0
       /\ \A i \in 1..k :
            /\ trace[i + 1].op = "dlsym"
            /\ trace[i + 1].port = i
            /\ trace[i + 1].rc = (IF i < k THEN 0 ELSE -1)
       /\ trace[k + 2].op = "dlclose" /\ trace[k + 2].rc = 0
       /\ OpCount(trace, "dlsym") = k
       /\ OpCount(trace, "filter_init") = 0

C11_Witness ==
  /\ phase = "init_failed"
  /\ SymbolMissing /\ FirstMissing = 2
  /\ pc.filter_init # NULL /\ pc.filter_frame = NULL
  /\ trace[Len(trace)].op = "dlclose"
  /\ lib.refs = 0

(***************************************************************************)
(* C12.  Between the return of init and teardown the context holds either  *)
(* an open handle and the three entry points, or no handle and no entry    *)
(* point.  The code closes the handle on a failed lookup and leaves        *)
(* pc->handle and the entry points found so far in the context.            *)
(***************************************************************************)
C12_NoPartialPublication ==
  phase \in {"initialized", "init_failed", "running", "error"} =>
    \/ /\ pc.handle # NULL /\ lib.refs > 0
       /\ pc.filter_init # NULL
       /\ pc.filter_frame # NULL
       /\ pc.filter_uninit # NULL
    \/ /\ pc.handle = NULL
       /\ pc.filter_init = NULL
       /\ pc.filter_frame = NULL
       /\ pc.filter_uninit = NULL

(***************************************************************************)
(* C13.  Without split and without clear, while the module and the next    *)
(* filter succeed on every frame, the N frames dispatched give exactly N   *)
(* forwarded frames, one per input frame and in input order, each on       *)
(* output 0 with the pts, the width and the height of its input frame.     *)
(* The forwarded frame has the input's line size when the input was        *)
(* processed in place; a frame taken from the pool has the pool's.         *)
(***************************************************************************)
AllSucceeded == \A n \in Dispatches : disp[n].ret >= 0

ForwardedOnceInOrder(n) ==
  LET d == disp[n]
  IN /\ Cardinality(Forwards(n)) = 1
     /\ \A i \in Forwards(n) :
          /\ trace[i].frame = d.out /\ trace[i].port = 0
          /\ \A m \in 1..(n - 1) : \A j \in Forwards(m) : j < i
     /\ frames[d.out].owner = "downstream"
     /\ frames[d.out].pts = frames[d.in].pts
     /\ \A m \in Dispatches :
          m # n => frames[disp[m].out].pts # frames[d.out].pts
     /\ frames[d.out].width = frames[d.in].width
     /\ frames[d.out].height = frames[d.in].height

C13_ForwardsEachFrameOnce ==
  (~SplitMode /\ ~ClearMode /\ AllSucceeded) =>
    /\ OpCount(trace, "ff_filter_frame") = Len(disp)
    /\ \A n \in Dispatches :
         /\ ForwardedOnceInOrder(n)
         /\ disp[n].direct =>
              frames[disp[n].out].linesize = frames[disp[n].in].linesize

\* the claim as stated: the line size is the input's on the copy path too
C13_ForwardsEachFrameWithInputStride ==
  (~SplitMode /\ ~ClearMode /\ AllSucceeded) =>
    /\ OpCount(trace, "ff_filter_frame") = Len(disp)
    /\ \A n \in Dispatches :
         /\ ForwardedOnceInOrder(n)
         /\ frames[disp[n].out].linesize = frames[disp[n].in].linesize

C13_Witness ==
  /\ ~SplitMode /\ ~ClearMode /\ AllSucceeded
  /\ Len(disp) = 2
  /\ disp[1].direct
  /\ ~disp[2].direct
  /\ frames[disp[2].out].linesize # frames[disp[2].in].linesize
  /\ OpCount(trace, "ff_filter_frame") = 2

(***************************************************************************)
(* C14.  The filter never changes the user_data the module's filter_init   *)
(* stored: the context keeps it, every call of the module's filter_frame   *)
(* is passed it, and so is the call of filter_uninit, in every variant     *)
(* and mode and whatever the number of frames.                             *)
(***************************************************************************)
C14_UserDataPassedUnmodified ==
  InitCalled =>
    /\ pc.user_data = lib.initUd
    /\ \A i \in 1..Len(modcalls) : modcalls[i].args.user_data = lib.initUd
    /\ \A i \in Positions(trace, "filter_uninit") : trace[i].ud = lib.initUd

C14_Witness ==
  /\ phase = "freed" /\ InitSucceededInModule
  /\ Len(modcalls) = 2
  /\ modcalls[2].args.user_data = lib.initUd /\ lib.initUd # NULL
  /\ \E i \in Positions(trace, "filter_uninit") :
       trace[i].rc = 0 /\ trace[i].ud = lib.initUd

(***************************************************************************)
(* C15.  Formats.  Without split the input link and the output link are    *)
(* BGRA, and so is every frame dispatched or forwarded.  With split the    *)
(* filter accepts every format: the frames forwarded on output 0 have the  *)
(* input link's format, whatever it is, while output 1 is configured BGRA  *)
(* with the input's width, height and time base and every frame forwarded  *)
(* on it is BGRA of that size.                                             *)
(***************************************************************************)
Configured == phase \in {"running", "error"} \/ (TornDown /\ links.w > 0)

ForwardsOn(port) ==
  {i \in Positions(trace, "ff_filter_frame") : trace[i].port = port}

C15_FormatNegotiation ==
  Configured =>
    /\ ~SplitMode =>
         /\ links.format = "BGRA" /\ links.out_format = "BGRA"
         /\ \A f \in 1..Len(frames) : frames[f].format = "BGRA"
         /\ ForwardsOn(1) = {}
    /\ SplitMode =>
         /\ links.format \in Formats
         /\ links.overlay = [w |-> links.w, h |-> links.h,
                             time_base |-> links.time_base,
                             format |-> "BGRA"]
         /\ \A i \in ForwardsOn(0) :
              frames[trace[i].frame].format = links.format
         /\ \A i \in ForwardsOn(1) :
              /\ frames[trace[i].frame].format = "BGRA"
              /\ frames[trace[i].frame].width = links.w
              /\ frames[trace[i].frame].height = links.h

C15_Witness ==
  /\ SplitMode /\ Configured
  /\ links.format = "YUV420P10"
  /\ \E i \in ForwardsOn(0) : frames[trace[i].frame].format = "YUV420P10"
  /\ \E i \in ForwardsOn(1) : frames[trace[i].frame].format = "BGRA"

ModuleBuffers(n) ==
  {trace[i].frame : i \in {j \in EventsOf(n) : trace[j].op = "filter_frame"}}

ForwardedFrames(n) == {trace[i].frame : i \in Forwards(n)}

FreedAfterModuleCall(n, f) ==
  \A i \in EventsOf(n) :
    trace[i].op = "filter_frame" =>
      \E j \in EventsOf(n) :
        j > i /\ trace[j].op = "av_frame_free" /\ trace[j].frame = f

InPlace(n) ==
  LET d == disp[n]
  IN /\ d.direct /\ d.out = d.in
     /\ ModuleBuffers(n) \subseteq {d.in}
     /\ ForwardedFrames(n) \subseteq {d.in}
     /\ frames[d.in].frees = 0

CopyThenProcess(n) ==
  LET d == disp[n]
  IN /\ ~d.direct
     /\ d.out # 0 =>
          /\ d.out # d.in
          /\ frames[d.out].pts = frames[d.in].pts
          /\ ModuleBuffers(n) \subseteq {d.out}
          /\ ForwardedFrames(n) \subseteq {d.out}
          /\ FreedAfterModuleCall(n, d.in)
     /\ frames[d.in].data = d.before
     /\ frames[d.in].owner = "freed"
     /\ frames[d.in].frees = 1 /\ frames[d.in].sends = 0

OverlayOnly(n) ==
  LET d == disp[n]
  IN d.out # 0 =>
       /\ d.out # d.in
       /\ ModuleBuffers(n) \subseteq {d.out}
       /\ frames[d.in].data = d.before
       /\ d.ret >= 0 => frames[d.in].owner = "downstream"

C17_BufferStrategy ==
  \A n \in Dispatches :
    IF SplitMode THEN OverlayOnly(n)
    ELSE IF frames[disp[n].in].writable THEN InPlace(n)
    ELSE CopyThenProcess(n)

\* the claim as stated: the same strategy in every mode
C17_BufferStrategyInEveryMode ==
  \A n \in Dispatches :
    IF frames[disp[n].in].writable
    THEN /\ ModuleBuffers(n) \subseteq {disp[n].in}
         /\ ForwardedFrames(n) \subseteq {disp[n].in}
    ELSE /\ disp[n].in \notin ModuleBuffers(n)
         /\ frames[disp[n].in].data = disp[n].before
         /\ disp[n].out # 0 => FreedAfterModuleCall(n, disp[n].in)

C17_Witness ==
  \E n \in Dispatches :
    /\ ~SplitMode /\ ~frames[disp[n].in].writable
    /\ lib.paints /\ ModuleSucceeded(n) /\ disp[n].ret >= 0
    /\ ModuleBuffers(n) = {disp[n].out}
    /\ frames[disp[n].in].owner = "freed"
    /\ frames[disp[n].out].data # disp[n].before
    /\ \E m \in Dispatches : frames[disp[m].in].writable /\ ModuleSucceeded(m)

(***************************************************************************)
(* C18.  A dispatch that computes a negative buffer size returns that      *)
(* value: it neither calls the module's filter_frame nor forwards a        *)
(* frame.  The size is computed once the dispatch has its output frame.    *)
(***************************************************************************)
SizeRejected(n) == ~links.size_ok /\ disp[n].out # 0

C18_NegativeSizeStopsTheDispatch ==
  \A n \in Dispatches :
    SizeRejected(n) =>
      /\ disp[n].ret < 0
      /\ disp[n].ret
           = av_image_get_buffer_size(frames[disp[n].out].format,
                                      frames[disp[n].out].width,
                                      frames[disp[n].out].height, FALSE)
      /\ ~ModuleCalled(n)
      /\ Forwards(n) = {}

C18_Witness ==
  \E n \in Dispatches :
    /\ SizeRejected(n)
    /\ disp[n].ret = AVERROR_EINVAL
    /\ ~ModuleCalled(n)
    /\ phase = "error"

(***************************************************************************)
(* C19.  When a dispatch returns, whatever the path, each of its frames    *)
(* (the input frame and the output frame it allocated, if any) has been    *)
(* disposed of exactly once, freed or passed to ff_filter_frame: the       *)
(* filter holds none, and no call made after a frame's disposal names it.  *)
(* The code returns with a frame still held when the module fails and      *)
(* when the buffer size is negative.                                       *)
(***************************************************************************)
Disposals == {"av_frame_free", "ff_filter_frame"}

C19_EveryFrameDisposedOnce ==
  \A n \in Dispatches :
    \A f \in FramesOf(n) :
      /\ frames[f].owner # "proxy"
      /\ frames[f].frees + frames[f].sends = 1
      /\ \A i \in EventsOf(n), j \in EventsOf(n) :
           (i < j /\ trace[i].op \in Disposals /\ trace[i].frame = f)
             => trace[j].frame # f

(***************************************************************************)
(* C20.  In the split-capable variant a filter_init that returned 0 is     *)
(* matched by exactly one filter_uninit, made at teardown into the still   *)
(* loaded module with the user_data of filter_init, and by none before     *)
(* teardown; so it is when init itself then fails creating its output      *)
(* pads.                                                                   *)
(***************************************************************************)
PadCreationFailed ==
  variant = "split" /\ InitSucceededInModule /\ initRet # 0

C20_SuccessfulInitMatchedByOneUninit ==
  (variant = "split" /\ InitSucceededInModule) =>
    IF TornDown
    THEN /\ OpCount(trace, "filter_uninit") = 1
         /\ phase = "freed"
         /\ \A i \in Positions(trace, "filter_uninit") :
              /\ trace[i].rc = 0 /\ trace[i].ud = lib.initUd
              /\ \A j \in Positions(trace, "filter_init") : j < i
              /\ \A j \in Positions(trace, "filter_frame") : j < i
              /\ i < Len(trace) /\ trace[i + 1].op = "dlclose"
              /\ trace[i + 1].rc = 0
    ELSE OpCount(trace, "filter_uninit") = 0

C20_Witness ==
  /\ PadCreationFailed /\ initRet = AVERROR_ENOMEM
  /\ opt.split /\ links.nb_outputs = 1
  /\ phase = "freed"
  /\ OpCount(trace, "filter_uninit") = 1
  /\ lib.refs = 0

=============================================================================
